---- MODULE Spec2Model ----
(***************************************************************************)
(* A model of the pattern_matcher crate: the MatchingPipeline value, its   *)
(* primitives (consume, skip, match_symbol, match_pattern, match_any_of,   *)
(* match_any_of_group, match_until, match_until_group, block) and the      *)
(* Exactly quantifier in its two implementations (lib.rs Quantifiable and  *)
(* quantifiers.rs WithQuantifier).                                         *)
(*                                                                         *)
(* Every Rust operation takes the pipeline by value.  The variable         *)
(* `pipeline` is the value the last call worked on as it stood when the    *)
(* call returned: the returned pipeline after Ok, the value that was       *)
(* dropped after Err.  `pre` is the value handed to the call.  `count` is   *)
(* the counter n of the quantifier loop that is running or ran last,       *)
(* `cursor` the cursor field of the pipeline, `digested` the String made   *)
(* by StringDigester.                                                      *)
(***************************************************************************)
EXTENDS Integers, Sequences, FiniteSets, TLC

VARIABLES input, pipeline, pre, call, res, pc, skipped, count, cursor, digested

vars == <<input, pipeline, pre, call, res, pc, skipped, count, cursor, digested>>

\* ------------------------------------------------------------------ bounds
MaxLen == 3
MaxPat == 2
MaxN == 3
\* Passes of a quantifier loop that are followed; a loop that returns makes at
\* most MaxLen + 1 of them.
MaxPass == 5

\* ------------------------------------------------------------ input domains
Symbols == {"a", "b"}

SeqsUpTo(S, n) == UNION {[1..k -> S] : k \in 0..n}

Inputs == SeqsUpTo(Symbols, MaxLen)

Patterns == SeqsUpTo(Symbols, MaxPat)

Groups ==
    { [accepted_symbols |-> <<"a", "b">>, description |-> "a or b"],
      [accepted_symbols |-> <<"b">>,      description |-> "b"],
      [accepted_symbols |-> <<>>,         description |-> "nothing"] }

\* A step of a callback: one primitive call, chained to the next with `?`.
Step(op, arg) == [op |-> op, arg |-> arg, description |-> ""]

\* The closures handed to block / with_quantifier.
Callbacks ==
    { <<Step("match_symbol", <<"a">>)>>,
      <<Step("match_pattern", <<"a", "b">>)>>,
      <<Step("match_pattern", <<>>)>>,
      <<Step("match_pattern", <<"a", "b">>), Step("match_any_of", <<"a">>)>>,
      <<Step("match_symbol", <<"a">>), Step("match_symbol", <<"b">>)>>,
      <<Step("match_until", <<"b">>)>>,
      <<Step("ZeroOrOne(match_symbol)", <<"a">>)>> }

\* --------------------------------------------------------------- PipelineError
NoError == [type |-> "None", expected |-> <<>>, actual |-> <<>>, description |-> ""]

UnexpectedEos ==
    [type |-> "UnexpectedEos", expected |-> <<>>, actual |-> <<>>, description |-> ""]

WrongSymbol(expected, actual) ==
    [type |-> "WrongSymbol", expected |-> <<expected>>, actual |-> <<actual>>,
     description |-> ""]

WrongPattern(expected, actual) ==
    [type |-> "WrongPattern", expected |-> expected, actual |-> actual,
     description |-> ""]

SymbolNotPartOfGroup(group, actual) ==
    [type |-> "SymbolNotPartOfGroup", expected |-> group.accepted_symbols,
     actual |-> <<actual>>, description |-> group.description]

SymbolNotMatchAnyOf(expected, actual) ==
    [type |-> "SymbolNotMatchAnyOf", expected |-> expected, actual |-> <<actual>>,
     description |-> ""]

\* PipelineResult.  p of an Err (or Panic) is the receiver as it stood when the
\* function returned; the Rust value carries the error only.
Ok(p) == [kind |-> "Ok", p |-> p, err |-> NoError]

Err(e, p) == [kind |-> "Err", p |-> p, err |-> e]

Panic(p) == [kind |-> "Panic", p |-> p, err |-> NoError]

\* ------------------------------------------------------------ slice helpers
\* contains, looking at the first element only
contains_first(s, x) == Len(s) >= 1 /\ s[1] = x

\* <[T]>::contains
contains(s, x) == \E i \in 1..Len(s) : s[i] = x

\* SymbolGroup::accept
accept(group, symbol) == contains(group.accepted_symbols, symbol)

\* ----------------------------------------------------------- MatchingPipeline
new(candidate) ==
    [matched |-> <<>>, unmatched |-> candidate, reached_eos |-> candidate = <<>>]

begin_match(candidate) == new(candidate)

\* consume, without recomputing reached_eos
consume_stale_eos(self) ==
    IF self.reached_eos THEN self
    ELSE LET matched   == SubSeq(self.unmatched, 1, 1)
             unmatched == SubSeq(self.unmatched, 2, Len(self.unmatched))
         IN  [matched |-> self.matched \o matched,
              unmatched |-> unmatched,
              reached_eos |-> self.reached_eos]

\* consume, putting the symbol at the front of matched
consume_prepending(self) ==
    IF self.reached_eos THEN self
    ELSE LET matched   == SubSeq(self.unmatched, 1, 1)
             unmatched == SubSeq(self.unmatched, 2, Len(self.unmatched))
         IN  [matched |-> matched \o self.matched,
              unmatched |-> unmatched,
              reached_eos |-> unmatched = <<>>]

\* consume, losing the symbol instead of appending it to matched
consume_dropping(self) ==
    IF self.reached_eos THEN self
    ELSE LET unmatched == SubSeq(self.unmatched, 2, Len(self.unmatched))
         IN  [matched |-> self.matched,
              unmatched |-> unmatched,
              reached_eos |-> unmatched = <<>>]

consume(self) ==
    IF self.reached_eos THEN self
    ELSE LET matched   == SubSeq(self.unmatched, 1, 1)
             unmatched == SubSeq(self.unmatched, 2, Len(self.unmatched))
         IN  [matched |-> self.matched \o matched,
              unmatched |-> unmatched,
              reached_eos |-> unmatched = <<>>]

\* skip, appending the symbol to matched as consume does
skip_appending(self) ==
    IF self.reached_eos THEN self
    ELSE LET unmatched == SubSeq(self.unmatched, 2, Len(self.unmatched))
         IN  [matched |-> self.matched \o SubSeq(self.unmatched, 1, 1),
              unmatched |-> unmatched,
              reached_eos |-> unmatched = <<>>]

\* skip, without recomputing reached_eos
skip_stale_eos(self) ==
    IF self.reached_eos THEN self
    ELSE LET unmatched == SubSeq(self.unmatched, 2, Len(self.unmatched))
         IN  [matched |-> self.matched,
              unmatched |-> unmatched,
              reached_eos |-> self.reached_eos]

skip(self) ==
    IF self.reached_eos THEN self
    ELSE LET unmatched == SubSeq(self.unmatched, 2, Len(self.unmatched))
         IN  [matched |-> self.matched,
              unmatched |-> unmatched,
              reached_eos |-> unmatched = <<>>]

\* match_symbol, with expected and actual exchanged in the error
match_symbol_swapped(self, symbol) ==
    IF self.reached_eos THEN Err(UnexpectedEos, self)
    ELSE LET actual == self.unmatched[1]
         IN  IF symbol = actual THEN Ok(consume(self))
             ELSE Err(WrongSymbol(actual, symbol), self)

match_symbol(self, symbol) ==
    IF self.reached_eos THEN Err(UnexpectedEos, self)
    ELSE LET actual == self.unmatched[1]
         IN  IF symbol = actual THEN Ok(consume(self))
             ELSE Err(WrongSymbol(symbol, actual), self)

\* the for loop of match_pattern, left after its first pass
match_pattern_loop_first(self, symbols) ==
    IF symbols = <<>> THEN Ok(self)
    ELSE LET r == match_symbol(self, Head(symbols))
         IN  IF r.kind = "Ok" THEN Ok(r.p) ELSE Panic(self)

\* the for loop of match_pattern: match_symbol(..).expect(..) per symbol
RECURSIVE match_pattern_loop(_, _)
match_pattern_loop(self, symbols) ==
    IF symbols = <<>> THEN Ok(self)
    ELSE LET r == match_symbol(self, Head(symbols))
         IN  IF r.kind = "Ok" THEN match_pattern_loop(r.p, Tail(symbols))
             ELSE Panic(self)

\* match_pattern, reporting a too short remainder as UnexpectedEos
match_pattern_eos(self, pattern) ==
    LET pipeline_ == self
    IN  IF Len(pattern) <= Len(pipeline_.unmatched)
        THEN LET symbols == SubSeq(pipeline_.unmatched, 1, Len(pattern))
             IN  IF symbols = pattern
                 THEN match_pattern_loop(self, symbols)
                 ELSE Err(WrongPattern(pattern, symbols), self)
        ELSE Err(UnexpectedEos, self)

match_pattern(self, pattern) ==
    LET pipeline_ == self
    IN  IF Len(pattern) <= Len(pipeline_.unmatched)
        THEN LET symbols == SubSeq(pipeline_.unmatched, 1, Len(pattern))
             IN  IF symbols = pattern
                 THEN match_pattern_loop(self, symbols)
                 ELSE Err(WrongPattern(pattern, symbols), self)
        ELSE Err(WrongPattern(pattern, pipeline_.unmatched), self)

\* match_any_of, consuming before the membership test
match_any_of_eager(self, symbols) ==
    IF self.reached_eos THEN Err(UnexpectedEos, self)
    ELSE LET actual == self.unmatched[1]
         IN  IF contains(symbols, actual) THEN Ok(consume(self))
             ELSE Err(SymbolNotMatchAnyOf(symbols, actual), consume(self))

match_any_of(self, symbols) ==
    IF self.reached_eos THEN Err(UnexpectedEos, self)
    ELSE LET actual == self.unmatched[1]
         IN  IF contains(symbols, actual) THEN Ok(consume(self))
             ELSE Err(SymbolNotMatchAnyOf(symbols, actual), self)

match_any_of_group(self, group) ==
    IF self.reached_eos THEN Err(UnexpectedEos, self)
    ELSE LET actual == self.unmatched[1]
         IN  IF accept(group, actual) THEN Ok(consume(self))
             ELSE Err(SymbolNotPartOfGroup(group, actual), self)

\* the loop of match_until, leaving a found delimiter unmatched
match_until_body_leaves_delim(self, delim) ==
    IF self.reached_eos THEN [brk |-> TRUE, kind |-> "Ok", self |-> self]
    ELSE LET r == match_pattern(self, delim)
         IN  IF r.kind = "Ok" THEN [brk |-> TRUE, kind |-> "Ok", self |-> self]
             ELSE IF r.kind = "Panic" THEN [brk |-> TRUE, kind |-> "Panic", self |-> self]
             ELSE [brk |-> FALSE, kind |-> "Ok", self |-> consume(self)]

\* One pass of the loop of match_until: brk says the loop was left.
match_until_body(self, delim) ==
    IF self.reached_eos THEN [brk |-> TRUE, kind |-> "Ok", self |-> self]
    ELSE LET r == match_pattern(self, delim)
         IN  IF r.kind = "Ok" THEN [brk |-> TRUE, kind |-> "Ok", self |-> r.p]
             ELSE IF r.kind = "Panic" THEN [brk |-> TRUE, kind |-> "Panic", self |-> self]
             ELSE [brk |-> FALSE, kind |-> "Ok", self |-> consume(self)]

RECURSIVE match_until(_, _)
match_until(self, delim) ==
    LET it == match_until_body(self, delim)
    IN  IF it.brk
        THEN (IF it.kind = "Ok" THEN Ok(it.self) ELSE Panic(it.self))
        ELSE match_until(it.self, delim)

\* the loop of match_until_group, leaving the delimiting symbol unmatched
match_until_group_body_leaves_delim(self, group) ==
    IF self.reached_eos THEN [brk |-> TRUE, kind |-> "Ok", self |-> self]
    ELSE LET pipeline_ == self
         IN  IF pipeline_.unmatched = <<>>
             THEN [brk |-> TRUE, kind |-> "Panic", self |-> self]
             ELSE IF accept(group, pipeline_.unmatched[1])
                  THEN [brk |-> TRUE, kind |-> "Ok", self |-> self]
                  ELSE [brk |-> FALSE, kind |-> "Ok", self |-> consume(pipeline_)]

\* One pass of the loop of match_until_group.
match_until_group_body(self, group) ==
    IF self.reached_eos THEN [brk |-> TRUE, kind |-> "Ok", self |-> self]
    ELSE LET pipeline_ == self
         IN  IF pipeline_.unmatched = <<>>
             THEN [brk |-> TRUE, kind |-> "Panic", self |-> self]
             ELSE IF accept(group, pipeline_.unmatched[1])
                  THEN [brk |-> TRUE, kind |-> "Ok", self |-> consume(pipeline_)]
                  ELSE [brk |-> FALSE, kind |-> "Ok", self |-> consume(pipeline_)]

RECURSIVE match_until_group(_, _)
match_until_group(self, group) ==
    LET it == match_until_group_body(self, group)
    IN  IF it.brk
        THEN (IF it.kind = "Ok" THEN Ok(it.self) ELSE Panic(it.self))
        ELSE match_until_group(it.self, group)

RECURSIVE callback(_, _)

block(self, cb) == callback(self, cb)

\* ---------------------------------------------------------------- ZeroOrOne
\* WithQuantifier<ZeroOrOne>, handing back the state the failed attempt left
with_quantifier_ZeroOrOne_no_snapshot(self, cb) ==
    LET r == block(self, cb)
    IN  IF r.kind = "Panic" THEN Panic(self) ELSE Ok(r.p)

\* quantifiers.rs, WithQuantifier<ZeroOrOne>
with_quantifier_ZeroOrOne(self, cb) ==
    LET p == self
        r == block(p, cb)
    IN  IF r.kind = "Ok" THEN Ok(r.p)
        ELSE IF r.kind = "Panic" THEN Panic(self)
        ELSE Ok(self)

\* One call of a closure body.  "ZeroOrOne(match_symbol)" is the nested
\* p.with_quantifier(ZeroOrOne, |q| q.match_symbol(..)).
step(self, s) ==
    CASE s.op = "match_symbol"  -> match_symbol(self, s.arg[1])
      [] s.op = "match_pattern" -> match_pattern(self, s.arg)
      [] s.op = "match_any_of"  -> match_any_of(self, s.arg)
      [] s.op = "match_until"   -> match_until(self, s.arg)
      [] s.op = "ZeroOrOne(match_symbol)" ->
            with_quantifier_ZeroOrOne(self, <<Step("match_symbol", s.arg)>>)
      [] OTHER                  -> Panic(self)

\* A closure |p| p.op1(..)?.op2(..) : the steps in order, `?` returning the
\* first error.
callback(self, cb) ==
    IF cb = <<>> THEN Ok(self)
    ELSE LET r == step(self, Head(cb))
         IN  IF r.kind = "Ok" THEN callback(r.p, Tail(cb)) ELSE r

\* ------------------------------------------------------------------ Exactly
\* n: Option<NonZeroUsize> is written as a number, 0 for None.
\* the loop of WithQuantifier<Exactly>, swallowing a failure that follows a
\* success
RECURSIVE exactly_loop_lenient(_, _, _, _)
exactly_loop_lenient(self, n, quantifier, cb) ==
    LET pipeline_ == self
        result    == block(pipeline_, cb)
    IN  IF result.kind = "Ok"
        THEN LET n1 == n + 1
             IN  IF n1 = quantifier THEN Ok(result.p)
                 ELSE exactly_loop_lenient(result.p, n1, quantifier, cb)
        ELSE IF n >= 1 THEN Ok(self)
        ELSE [kind |-> result.kind, p |-> self, err |-> result.err]

\* quantifiers.rs, WithQuantifier<Exactly>: the loop, entered with (self, n).
RECURSIVE exactly_loop(_, _, _, _)
exactly_loop(self, n, quantifier, cb) ==
    LET pipeline_ == self
        result    == block(pipeline_, cb)
    IN  IF result.kind = "Ok"
        THEN LET n1 == n + 1
             IN  IF n1 = quantifier THEN Ok(result.p)
                 ELSE exactly_loop(result.p, n1, quantifier, cb)
        ELSE [kind |-> result.kind, p |-> self, err |-> result.err]

with_quantifier_Exactly(self, quantifier, cb) == exactly_loop(self, 0, quantifier, cb)

\* lib.rs, Quantifiable<Exactly>: the same loop behind a reached_eos test.
RECURSIVE quantifiable_exactly_loop(_, _, _, _)
quantifiable_exactly_loop(self, n, quantifier, cb) ==
    IF self.reached_eos THEN Err(UnexpectedEos, self)
    ELSE LET pipeline_ == self
             result    == callback(pipeline_, cb)
         IN  IF result.kind = "Ok"
             THEN LET n1 == n + 1
                  IN  IF n1 = quantifier THEN Ok(result.p)
                      ELSE quantifiable_exactly_loop(result.p, n1, quantifier, cb)
             ELSE [kind |-> result.kind, p |-> self, err |-> result.err]

Quantifiable_with_quantifier_Exactly(self, quantifier, cb) ==
    quantifiable_exactly_loop(self, 0, quantifier, cb)

\* ------------------------------------------------------------------ AtLeast
\* A pass of a quantifier loop: ret says with_quantifier returned, kind / err
\* what it returned, self and n are the loop's variables after the pass.
Pass(ret, kind, err, self, n) ==
    [ret |-> ret, kind |-> kind, err |-> err, self |-> self, n |-> n]

\* the loop of WithQuantifier<AtLeast>, running the callback on self itself
\* instead of on a clone
at_least_body_no_clone(self, n, quantifier, cb) ==
    LET result == block(self, cb)
    IN  IF result.kind = "Ok" THEN Pass(FALSE, "Ok", NoError, result.p, n + 1)
        ELSE IF result.kind = "Panic" THEN Pass(TRUE, "Panic", NoError, self, n)
        ELSE IF n >= quantifier THEN Pass(TRUE, "Ok", NoError, result.p, n)
        ELSE Pass(TRUE, "Err", result.err, result.p, n)

\* the loop of WithQuantifier<AtLeast>, asking for more than quantifier.0
at_least_body_strict(self, n, quantifier, cb) ==
    LET pipeline_ == self
        result    == block(pipeline_, cb)
    IN  IF result.kind = "Ok" THEN Pass(FALSE, "Ok", NoError, result.p, n + 1)
        ELSE IF result.kind = "Panic" THEN Pass(TRUE, "Panic", NoError, self, n)
        ELSE IF n > quantifier THEN Pass(TRUE, "Ok", NoError, self, n)
        ELSE Pass(TRUE, "Err", result.err, self, n)

\* quantifiers.rs, WithQuantifier<AtLeast>: one pass of the loop.
at_least_body(self, n, quantifier, cb) ==
    LET pipeline_ == self
        result    == block(pipeline_, cb)
    IN  IF result.kind = "Ok" THEN Pass(FALSE, "Ok", NoError, result.p, n + 1)
        ELSE IF result.kind = "Panic" THEN Pass(TRUE, "Panic", NoError, self, n)
        ELSE IF n >= quantifier THEN Pass(TRUE, "Ok", NoError, self, n)
        ELSE Pass(TRUE, "Err", result.err, self, n)

\* ------------------------------------------------------------------- AtMost
\* the loop of WithQuantifier<AtMost>, returning one success too late
at_most_body_overrun(self, n, quantifier, cb) ==
    LET pipeline_ == self
        result    == block(pipeline_, cb)
        n1        == n + 1
    IN  IF result.kind = "Ok"
        THEN IF n1 > quantifier THEN Pass(TRUE, "Ok", NoError, result.p, n1)
             ELSE Pass(FALSE, "Ok", NoError, result.p, n1)
        ELSE IF result.kind = "Panic" THEN Pass(TRUE, "Panic", NoError, self, n)
        ELSE IF n = 0 THEN Pass(TRUE, "Err", result.err, self, n)
        ELSE IF n <= quantifier THEN Pass(TRUE, "Ok", NoError, self, n)
        ELSE Pass(TRUE, "Err", result.err, self, n)

\* the loop of WithQuantifier<AtMost>, returning a later failure as it is
at_most_body_propagating(self, n, quantifier, cb) ==
    LET pipeline_ == self
        result    == block(pipeline_, cb)
        n1        == n + 1
    IN  IF result.kind = "Ok"
        THEN IF n1 = quantifier THEN Pass(TRUE, "Ok", NoError, result.p, n1)
             ELSE Pass(FALSE, "Ok", NoError, result.p, n1)
        ELSE IF result.kind = "Panic" THEN Pass(TRUE, "Panic", NoError, self, n)
        ELSE IF n = 0 THEN Pass(TRUE, "Err", result.err, self, n)
        ELSE IF n > quantifier THEN Pass(TRUE, "Ok", NoError, self, n)
        ELSE Pass(TRUE, "Err", result.err, self, n)

\* quantifiers.rs, WithQuantifier<AtMost>: one pass of the loop. n counts the
\* successes, 0 standing for the None of the code's Option<NonZeroUsize>.
\* A success beyond quantifier.0 matches neither `n == quantifier.0` nor
\* `n < quantifier.0` and falls through to the next pass.
at_most_body(self, n, quantifier, cb) ==
    LET pipeline_ == self
        result    == block(pipeline_, cb)
        n1        == n + 1
    IN  IF result.kind = "Ok"
        THEN IF n1 = quantifier THEN Pass(TRUE, "Ok", NoError, result.p, n1)
             ELSE Pass(FALSE, "Ok", NoError, result.p, n1)
        ELSE IF result.kind = "Panic" THEN Pass(TRUE, "Panic", NoError, self, n)
        ELSE IF n = 0 THEN Pass(TRUE, "Err", result.err, self, n)
        ELSE IF n <= quantifier THEN Pass(TRUE, "Ok", NoError, self, n)
        ELSE Pass(TRUE, "Err", result.err, self, n)

\* ------------------------------------------------------------------- cursor
\* The cursor field of MatchingPipeline: the number of symbols taken off the
\* stream by consume and skip, or the sentinel once the stream is exhausted.
Sentinel == -1

new_cursor(candidate) == IF candidate = <<>> THEN Sentinel ELSE 0

\* the cursor, counting on after the stream is exhausted
cursor_after_counting(c, before, after) ==
    c + (Len(before.unmatched) - Len(after.unmatched))

\* The cursor after the consume / skip calls that led from `before` to `after`.
cursor_after(c, before, after) ==
    IF after.reached_eos THEN Sentinel
    ELSE c + (Len(before.unmatched) - Len(after.unmatched))

\* -------------------------------------------------------------- the machine
Call(op, arg, description, n, cb) ==
    [op |-> op, arg |-> arg, description |-> description, n |-> n, cb |-> cb]

NoCall == Call("begin_match", <<>>, "", 0, <<>>)

Outcome(r) == [kind |-> r.kind, err |-> r.err]

\* A pipeline value is in the caller's hands: no call is running and the last
\* one did not end in Err (which drops the pipeline) or in a panic.
Alive == pc = "idle" /\ res.kind = "Ok"

\* begin_match(candidate)
Init ==
    /\ input \in Inputs
    /\ pipeline = begin_match(input)
    /\ pre = pipeline
    /\ call = NoCall
    /\ res = Outcome(Ok(pipeline))
    /\ pc = "idle"
    /\ skipped = 0
    /\ count = 0
    /\ cursor = new_cursor(input)
    /\ digested = <<>>

\* The call c returned r.
Return(c, r) ==
    /\ pre' = pipeline
    /\ call' = c
    /\ pipeline' = r.p
    /\ res' = Outcome(r)
    /\ pc' = "idle"
    /\ count' = 0
    /\ cursor' = cursor_after(cursor, pipeline, r.p)
    /\ UNCHANGED <<input, digested>>

Consume ==
    /\ Alive
    /\ Return(Call("consume", <<>>, "", 0, <<>>), Ok(consume(pipeline)))
    /\ UNCHANGED skipped

Skip ==
    /\ Alive
    /\ Return(Call("skip", <<>>, "", 0, <<>>), Ok(skip(pipeline)))
    /\ skipped' = skipped + (Len(pipeline.unmatched) - Len(skip(pipeline).unmatched))

MatchSymbol ==
    /\ Alive
    /\ \E symbol \in Symbols :
          Return(Call("match_symbol", <<symbol>>, "", 0, <<>>),
                 match_symbol(pipeline, symbol))
    /\ UNCHANGED skipped

MatchPattern ==
    /\ Alive
    /\ \E pattern \in Patterns :
          Return(Call("match_pattern", pattern, "", 0, <<>>),
                 match_pattern(pipeline, pattern))
    /\ UNCHANGED skipped

MatchAnyOf ==
    /\ Alive
    /\ \E symbols \in Patterns :
          Return(Call("match_any_of", symbols, "", 0, <<>>),
                 match_any_of(pipeline, symbols))
    /\ UNCHANGED skipped

MatchAnyOfGroup ==
    /\ Alive
    /\ \E group \in Groups :
          Return(Call("match_any_of_group", group.accepted_symbols,
                      group.description, 0, <<>>),
                 match_any_of_group(pipeline, group))
    /\ UNCHANGED skipped

\* match_until is entered; its loop runs one pass per MatchUntilLoop step.
MatchUntil ==
    /\ Alive
    /\ \E delim \in Patterns :
          call' = Call("match_until", delim, "", 0, <<>>)
    /\ pre' = pipeline
    /\ pc' = "match_until"
    /\ res' = [kind |-> "Running", err |-> NoError]
    /\ UNCHANGED <<input, pipeline, skipped, count, cursor, digested>>

MatchUntilLoop ==
    /\ pc = "match_until"
    /\ LET it == match_until_body(pipeline, call.arg)
       IN  /\ pipeline' = it.self
           /\ IF it.brk
              THEN /\ pc' = "idle"
                   /\ res' = [kind |-> it.kind, err |-> NoError]
              ELSE UNCHANGED <<pc, res>>
           /\ cursor' = cursor_after(cursor, pipeline, it.self)
    /\ UNCHANGED <<input, pre, call, skipped, count, digested>>

MatchUntilGroup ==
    /\ Alive
    /\ \E group \in Groups :
          call' = Call("match_until_group", group.accepted_symbols,
                       group.description, 0, <<>>)
    /\ pre' = pipeline
    /\ pc' = "match_until_group"
    /\ res' = [kind |-> "Running", err |-> NoError]
    /\ UNCHANGED <<input, pipeline, skipped, count, cursor, digested>>

MatchUntilGroupLoop ==
    /\ pc = "match_until_group"
    /\ LET group == [accepted_symbols |-> call.arg, description |-> call.description]
           it    == match_until_group_body(pipeline, group)
       IN  /\ pipeline' = it.self
           /\ IF it.brk
              THEN /\ pc' = "idle"
                   /\ res' = [kind |-> it.kind, err |-> NoError]
              ELSE UNCHANGED <<pc, res>>
           /\ cursor' = cursor_after(cursor, pipeline, it.self)
    /\ UNCHANGED <<input, pre, call, skipped, count, digested>>

Block ==
    /\ Alive
    /\ \E cb \in Callbacks :
          Return(Call("block", <<>>, "", 0, cb), block(pipeline, cb))
    /\ UNCHANGED skipped

\* quantifiers.rs: pipeline.with_quantifier(ZeroOrOne, cb)
WithQuantifierZeroOrOne ==
    /\ Alive
    /\ \E cb \in Callbacks :
          Return(Call("ZeroOrOne", <<>>, "", 0, cb),
                 with_quantifier_ZeroOrOne(pipeline, cb))
    /\ UNCHANGED skipped

\* A quantifier loop is entered by the call c.
Enter(c, loop) ==
    /\ call' = c
    /\ pre' = pipeline
    /\ pc' = loop
    /\ count' = 0
    /\ res' = [kind |-> "Running", err |-> NoError]
    /\ UNCHANGED <<input, pipeline, skipped, cursor, digested>>

\* The pass `it` of the running quantifier loop was made.
Passed(it) ==
    /\ pipeline' = it.self
    /\ count' = it.n
    /\ IF it.ret
       THEN /\ pc' = "idle"
            /\ res' = [kind |-> it.kind, err |-> it.err]
       ELSE UNCHANGED <<pc, res>>
    /\ cursor' = cursor_after(cursor, pipeline, it.self)
    /\ UNCHANGED <<input, pre, call, skipped, digested>>

\* quantifiers.rs: pipeline.with_quantifier(AtLeast(n), cb) is entered
WithQuantifierAtLeast ==
    /\ Alive
    /\ \E n \in 0..MaxN, cb \in Callbacks :
          Enter(Call("AtLeast", <<>>, "", n, cb), "AtLeast")

\* ZeroOrMore, calling AtLeast(1)
with_quantifier_ZeroOrMore_one(cb) == Call("ZeroOrMore", <<>>, "", 1, cb)

\* quantifiers.rs, WithQuantifier<ZeroOrMore>:
\* self.with_quantifier(AtLeast(0), callback)
with_quantifier_ZeroOrMore(cb) == Call("ZeroOrMore", <<>>, "", 0, cb)

\* quantifiers.rs: pipeline.with_quantifier(ZeroOrMore, cb) enters the loop of
\* AtLeast
WithQuantifierZeroOrMore ==
    /\ Alive
    /\ \E cb \in Callbacks : Enter(with_quantifier_ZeroOrMore(cb), "AtLeast")

\* One pass of the loop of WithQuantifier<AtLeast>.
AtLeastLoop ==
    /\ pc = "AtLeast"
    /\ count < MaxPass
    /\ Passed(at_least_body(pipeline, count, call.n, call.cb))

\* quantifiers.rs: pipeline.with_quantifier(AtMost(n), cb) is entered; n is a
\* NonZeroUsize
WithQuantifierAtMost ==
    /\ Alive
    /\ \E n \in 1..MaxN, cb \in Callbacks :
          Enter(Call("AtMost", <<>>, "", n, cb), "AtMost")

\* One pass of the loop of WithQuantifier<AtMost>.
AtMostLoop ==
    /\ pc = "AtMost"
    /\ count < MaxPass
    /\ Passed(at_most_body(pipeline, count, call.n, call.cb))

\* quantifiers.rs: pipeline.with_quantifier(Exactly(n), cb)
WithQuantifierExactly ==
    /\ Alive
    /\ \E n \in 1..MaxN, cb \in Callbacks :
          Return(Call("WithQuantifier<Exactly>", <<>>, "", n, cb),
                 with_quantifier_Exactly(pipeline, n, cb))
    /\ UNCHANGED skipped

\* lib.rs: pipeline.with_quantifier(Exactly(n), cb)
QuantifiableExactly ==
    /\ Alive
    /\ \E n \in 1..MaxN, cb \in Callbacks :
          Return(Call("Quantifiable<Exactly>", <<>>, "", n, cb),
                 Quantifiable_with_quantifier_Exactly(pipeline, n, cb))
    /\ UNCHANGED skipped

Next ==
    \/ Consume
    \/ Skip
    \/ MatchSymbol
    \/ MatchPattern
    \/ MatchAnyOf
    \/ MatchAnyOfGroup
    \/ MatchUntil
    \/ MatchUntilLoop
    \/ MatchUntilGroup
    \/ MatchUntilGroupLoop
    \/ Block
    \/ WithQuantifierZeroOrOne
    \/ WithQuantifierAtLeast
    \/ WithQuantifierZeroOrMore
    \/ AtLeastLoop
    \/ WithQuantifierAtMost
    \/ AtMostLoop
    \/ WithQuantifierExactly
    \/ QuantifiableExactly

Spec == Init /\ [][Next]_vars

\* The loops of match_until and match_until_group are ordinary sequential
\* code: once entered, each pass is eventually executed.
FairSpec == Spec /\ WF_vars(MatchUntilLoop) /\ WF_vars(MatchUntilGroupLoop)

\* match_until_group among the primitives that prepare its receiver, its loop
\* executed pass after pass once entered.
GroupNext ==
    \/ Consume
    \/ Skip
    \/ MatchSymbol
    \/ MatchUntilGroup
    \/ MatchUntilGroupLoop

GroupSpec == Init /\ [][GroupNext]_vars /\ WF_vars(MatchUntilGroupLoop)

TypeOK ==
    /\ input \in Inputs
    /\ pc \in {"idle", "match_until", "match_until_group", "AtLeast", "AtMost"}
    /\ res.kind \in {"Ok", "Err", "Panic", "Running"}
    /\ skipped \in 0..Len(input)
    /\ count \in Nat
    /\ cursor \in Int
    /\ pipeline.reached_eos \in BOOLEAN

\* ---------------------------------------------------------------- digestion
\* The pipeline of chars: a char is its Unicode scalar value, a String is its
\* sequence of UTF-8 bytes. One char of each encoded length.
Chars == {97, 233, 8364, 128512}

CharInputs == SeqsUpTo(Chars, MaxLen)

\* char::encode_utf8, as String's FromIterator<&char> pushes each char
encode_utf8(c) ==
    IF c < 128 THEN <<c>>
    ELSE IF c < 2048 THEN <<192 + (c \div 64), 128 + (c % 64)>>
    ELSE IF c < 65536
         THEN <<224 + (c \div 4096), 128 + ((c \div 64) % 64), 128 + (c % 64)>>
    ELSE <<240 + (c \div 262144), 128 + ((c \div 4096) % 64),
           128 + ((c \div 64) % 64), 128 + (c % 64)>>

RECURSIVE collect_String(_)

\* symbols.iter().collect::<String>()
collect_String(symbols) ==
    IF symbols = <<>> THEN <<>>
    ELSE encode_utf8(Head(symbols)) \o collect_String(Tail(symbols))

\* a digester that writes '?' for every char outside ASCII
StringDigester_digest_ascii(symbols) ==
    collect_String([i \in 1..Len(symbols) |->
                       IF symbols[i] < 128 THEN symbols[i] ELSE 63])

\* digesters.rs, Digester<char> for StringDigester
StringDigester_digest(symbols) == collect_String(symbols)

RECURSIVE chars(_)

\* str::chars on a String's bytes: the scalar values of its UTF-8 sequences
chars(value) ==
    IF value = <<>> THEN <<>>
    ELSE LET b == Head(value)
             cont(i) == value[i] - 128
         IN  IF b < 128 THEN <<b>> \o chars(SubSeq(value, 2, Len(value)))
             ELSE IF b < 224
                  THEN <<(b - 192) * 64 + cont(2)>>
                       \o chars(SubSeq(value, 3, Len(value)))
             ELSE IF b < 240
                  THEN <<(b - 224) * 4096 + cont(2) * 64 + cont(3)>>
                       \o chars(SubSeq(value, 4, Len(value)))
             ELSE <<(b - 240) * 262144 + cont(2) * 4096 + cont(3) * 64 + cont(4)>>
                  \o chars(SubSeq(value, 5, Len(value)))

\* lib.rs, From<&str> for MatchingPipeline<char>
From_str(value) == new(chars(value))

\* A pipeline of chars is begun on any input and run with consume and skip;
\* its matched run is digested, the String is fed to a fresh pipeline and that
\* one is consumed to the end.
DigestInit ==
    /\ input \in CharInputs
    /\ pipeline = begin_match(input)
    /\ pre = pipeline
    /\ call = NoCall
    /\ res = Outcome(Ok(pipeline))
    /\ pc = "matching"
    /\ skipped = 0
    /\ count = 0
    /\ cursor = new_cursor(input)
    /\ digested = <<>>

DigestConsume ==
    /\ pc = "matching"
    /\ ~pipeline.reached_eos
    /\ pipeline' = consume(pipeline)
    /\ pre' = pipeline'
    /\ cursor' = cursor_after(cursor, pipeline, pipeline')
    /\ UNCHANGED <<input, call, res, pc, skipped, count, digested>>

DigestSkip ==
    /\ pc = "matching"
    /\ ~pipeline.reached_eos
    /\ pipeline' = skip(pipeline)
    /\ pre' = pipeline'
    /\ skipped' = skipped + 1
    /\ cursor' = cursor_after(cursor, pipeline, pipeline')
    /\ UNCHANGED <<input, call, res, pc, count, digested>>

\* StringDigester::digest(&pipeline.matched)
Digest ==
    /\ pc = "matching"
    /\ digested' = StringDigester_digest(pipeline.matched)
    /\ pc' = "digested"
    /\ UNCHANGED <<input, pipeline, pre, call, res, skipped, count, cursor>>

\* begin_match(digested.as_str())
Refeed ==
    /\ pc = "digested"
    /\ pipeline' = From_str(digested)
    /\ cursor' = new_cursor(pipeline'.unmatched)
    /\ pc' = "refed"
    /\ UNCHANGED <<input, pre, call, res, skipped, count, digested>>

RefedConsume ==
    /\ pc = "refed"
    /\ ~pipeline.reached_eos
    /\ pipeline' = consume(pipeline)
    /\ cursor' = cursor_after(cursor, pipeline, pipeline')
    /\ UNCHANGED <<input, pre, call, res, pc, skipped, count, digested>>

DigestNext ==
    \/ DigestConsume
    \/ DigestSkip
    \/ Digest
    \/ Refeed
    \/ RefedConsume

DigestSpec == DigestInit /\ [][DigestNext]_vars

\* ------------------------------------------------------------------- claims
Min(x, y) == IF x <= y THEN x ELSE y

Range(s) == {s[i] : i \in 1..Len(s)}

Returned(op) == pc = "idle" /\ call.op = op

C2_Exhaustion == pipeline.reached_eos <=> (pipeline.unmatched = <<>>)

C2_Witness ==
    /\ Returned("skip")
    /\ ~pre.reached_eos
    /\ pipeline.reached_eos
    /\ pipeline.matched # <<>>

\* C3: a match_symbol, match_any_of or match_any_of_group call that returns an
\* error has consumed nothing: matched and unmatched are those of the pre-call
\* state, and the outcome is an error value.
C3_NoConsumptionOnFailure ==
    (/\ pc = "idle"
     /\ call.op \in {"match_symbol", "match_any_of", "match_any_of_group"}
     /\ res.kind # "Ok")
    => /\ res.kind = "Err"
       /\ res.err # NoError
       /\ pipeline.matched = pre.matched
       /\ pipeline.unmatched = pre.unmatched

C3_Witness ==
    /\ Returned("match_any_of")
    /\ res.kind = "Err"
    /\ res.err.type = "SymbolNotMatchAnyOf"
    /\ pre.matched # <<>>
    /\ call.arg # <<>>

\* C4: match_symbol(expected) fails with UnexpectedEos on an exhausted
\* pipeline; succeeds, moving exactly the head of unmatched to the tail of
\* matched, when the head equals expected; fails with
\* WrongSymbol{expected, actual = head} otherwise.
C4_MatchSymbol ==
    Returned("match_symbol") =>
        LET expected == call.arg[1]
        IN  IF pre.unmatched = <<>>
            THEN res = [kind |-> "Err", err |-> UnexpectedEos]
            ELSE IF Head(pre.unmatched) = expected
            THEN /\ res.kind = "Ok"
                 /\ pipeline.matched = Append(pre.matched, expected)
                 /\ pipeline.unmatched = Tail(pre.unmatched)
            ELSE res = [kind |-> "Err",
                        err |-> [type |-> "WrongSymbol",
                                 expected |-> <<expected>>,
                                 actual |-> <<Head(pre.unmatched)>>,
                                 description |-> ""]]

C4_Witness ==
    /\ Returned("match_symbol")
    /\ res.kind = "Err"
    /\ res.err.type = "WrongSymbol"
    /\ pre.matched # <<>>

\* C5: match_pattern succeeds exactly when the first len(pattern) symbols of
\* unmatched equal the pattern term by term, and then has moved exactly those
\* symbols, in order, to the tail of matched; otherwise it fails having
\* consumed none.  No call ends with a proper part of the pattern consumed.
C5_PatternAtomic ==
    Returned("match_pattern") =>
        LET pattern == call.arg
            k       == Len(pattern)
            fits    == /\ k <= Len(pre.unmatched)
                       /\ \A i \in 1..k : pre.unmatched[i] = pattern[i]
        IN  /\ res.kind \in {"Ok", "Err"}
            /\ res.kind = "Ok" <=> fits
            /\ res.kind = "Ok" =>
                  /\ pipeline.matched = pre.matched \o pattern
                  /\ pipeline.unmatched =
                        SubSeq(pre.unmatched, k + 1, Len(pre.unmatched))
            /\ res.kind = "Err" =>
                  /\ pipeline.matched = pre.matched
                  /\ pipeline.unmatched = pre.unmatched

C5_Witness ==
    /\ Returned("match_pattern")
    /\ res.kind = "Ok"
    /\ Len(call.arg) = 2
    /\ pipeline.matched = call.arg
    /\ pipeline.unmatched # <<>>

\* C6: whenever match_pattern fails the error is WrongPattern{expected =
\* pattern, actual = the first min(len(pattern), len(unmatched)) symbols of
\* unmatched}: never padded, never longer than the pattern.
C6_PatternError ==
    (Returned("match_pattern") /\ res.kind # "Ok") =>
        LET pattern == call.arg
            k       == Min(Len(pattern), Len(pre.unmatched))
        IN  /\ res.kind = "Err"
            /\ res.err.type = "WrongPattern"
            /\ res.err.expected = pattern
            /\ res.err.actual = SubSeq(pre.unmatched, 1, k)
            /\ Len(res.err.actual) <= Len(pattern)

C6_Witness ==
    /\ Returned("match_pattern")
    /\ res.kind = "Err"
    /\ pre.matched # <<>>
    /\ Len(res.err.actual) = 1
    /\ Len(call.arg) = 2

\* C7: match_any_of(set) and match_any_of_group(group) fail with UnexpectedEos
\* on an exhausted pipeline; otherwise they succeed, consuming exactly one
\* symbol, if and only if the head of unmatched is a member of the set / group
\* (order and duplicates irrelevant); otherwise they fail with
\* SymbolNotMatchAnyOf{set, head} / SymbolNotPartOfGroup{group, head}.
C7_MatchAnyOf ==
    (pc = "idle" /\ call.op \in {"match_any_of", "match_any_of_group"}) =>
        IF pre.unmatched = <<>>
        THEN res = [kind |-> "Err", err |-> UnexpectedEos]
        ELSE IF Head(pre.unmatched) \in Range(call.arg)
        THEN /\ res.kind = "Ok"
             /\ pipeline.matched = Append(pre.matched, Head(pre.unmatched))
             /\ pipeline.unmatched = Tail(pre.unmatched)
        ELSE /\ res.kind = "Err"
             /\ res.err.type = (IF call.op = "match_any_of"
                                THEN "SymbolNotMatchAnyOf"
                                ELSE "SymbolNotPartOfGroup")
             /\ res.err.expected = call.arg
             /\ res.err.description = call.description
             /\ res.err.actual = <<Head(pre.unmatched)>>

C7_Witness ==
    /\ Returned("match_any_of")
    /\ res.kind = "Ok"
    /\ Len(call.arg) = 2
    /\ call.arg[1] # Head(pre.unmatched)
    /\ call.arg[2] = Head(pre.unmatched)

\* The positions of pre.unmatched at which delim occurs as a contiguous run.
Occurrences(u, delim) ==
    {i \in 1..(Len(u) + 1) :
        /\ i + Len(delim) - 1 <= Len(u)
        /\ \A j \in 1..Len(delim) : u[i + j - 1] = delim[j]}

Least(S) == CHOOSE i \in S : \A j \in S : i <= j

\* C8: match_until(delim) always returns, and returns success: if delim occurs
\* in the pre-call unmatched, everything up to and including its leftmost
\* occurrence has been consumed and the rest is left unmatched; if it does not
\* occur, the whole remainder has been consumed and reached_eos is true.
C8_Returned ==
    Returned("match_until") =>
        LET u     == pre.unmatched
            delim == call.arg
            occ   == Occurrences(u, delim)
            taken == IF occ # {} THEN Least(occ) + Len(delim) - 1 ELSE Len(u)
        IN  /\ res.kind = "Ok"
            /\ pipeline.matched = pre.matched \o SubSeq(u, 1, taken)
            /\ pipeline.unmatched = SubSeq(u, taken + 1, Len(u))
            /\ occ = {} => pipeline.reached_eos

C8_MatchUntil ==
    /\ []C8_Returned
    /\ (pc = "match_until") ~> (pc = "idle")

C8_Witness ==
    /\ Returned("match_until")
    /\ Len(call.arg) = 1
    /\ Len(pipeline.matched) = Len(pre.matched) + 2
    /\ pipeline.unmatched # <<>>

\* The result of applying the closure cb k times in a row from p, stopping at
\* the first application that does not succeed.
RECURSIVE Times(_, _, _)
Times(p, cb, k) ==
    IF k = 0 THEN Ok(p)
    ELSE LET r == Times(p, cb, k - 1)
         IN  IF r.kind = "Ok" THEN callback(r.p, cb) ELSE r

\* C9: WithQuantifier<Exactly>(n) succeeds exactly when the sub-combinator
\* succeeds n times in a row from the input state, and then returns the state
\* after those n applications; if the k-th application (k <= n) fails, it
\* returns that application's error.
C9_Exactly ==
    Returned("WithQuantifier<Exactly>") =>
        LET r == Times(pre, call.cb, call.n)
        IN  /\ res = Outcome(r)
            /\ res.kind = "Ok" => pipeline = r.p

C9_Witness ==
    /\ Returned("WithQuantifier<Exactly>")
    /\ call.n = 3
    /\ res.kind = "Err"
    /\ res.err.type = "WrongSymbol"
    /\ Len(pipeline.matched) = Len(pre.matched) + 2

\* The stream p became exhausted after k successful applications, 1 <= k < n.
ExhaustedBefore(p, cb, n) ==
    /\ ~p.reached_eos
    /\ \E k \in 1..(n - 1) :
          /\ Times(p, cb, k).kind = "Ok"
          /\ Times(p, cb, k).p.reached_eos

\* C10: when the stream becomes exhausted after fewer than n successful
\* applications of the sub-combinator, with_quantifier(Exactly(n), C) fails
\* with UnexpectedEos, for every sub-combinator C.
C10_ExactlyEos ==
    (/\ pc = "idle"
     /\ call.op \in {"WithQuantifier<Exactly>", "Quantifiable<Exactly>"}
     /\ ExhaustedBefore(pre, call.cb, call.n))
    => res = [kind |-> "Err", err |-> UnexpectedEos]

\* C10 restricted to lib.rs: Quantifiable<Exactly> tests reached_eos before
\* every application and returns UnexpectedEos when the stream ran out first.
C10_QuantifiableEos ==
    (/\ Returned("Quantifiable<Exactly>")
     /\ ExhaustedBefore(pre, call.cb, call.n))
    => res = [kind |-> "Err", err |-> UnexpectedEos]

\* C11: for every pipeline state, exhausted ones included, and every
\* sub-combinator C, with_quantifier(Exactly(1), C) returns what applying C
\* once returns: the same success state or the same error value.
C11_ExactlyOne ==
    (/\ pc = "idle"
     /\ call.op \in {"WithQuantifier<Exactly>", "Quantifiable<Exactly>"}
     /\ call.n = 1)
    => LET r == callback(pre, call.cb)
       IN  /\ res = Outcome(r)
           /\ res.kind = "Ok" => pipeline = r.p

\* C11 restricted to quantifiers.rs: WithQuantifier<Exactly> makes its first
\* application whatever the state of the stream.
C11_WithQuantifierOne ==
    (Returned("WithQuantifier<Exactly>") /\ call.n = 1)
    => LET r == callback(pre, call.cb)
       IN  /\ res = Outcome(r)
           /\ res.kind = "Ok" => pipeline = r.p

\* C12: ZeroOrOne always succeeds and applies the sub-combinator at most once:
\* if the attempt succeeds the result is the attempt's state, if it fails the
\* result is the pre-call state unchanged (matched, unmatched, reached_eos).
C12_ZeroOrOne ==
    Returned("ZeroOrOne") =>
        LET r == callback(pre, call.cb)
        IN  /\ res = [kind |-> "Ok", err |-> NoError]
            /\ r.kind = "Ok" => pipeline = r.p
            /\ r.kind # "Ok" =>
                  /\ pipeline.matched = pre.matched
                  /\ pipeline.unmatched = pre.unmatched
                  /\ pipeline.reached_eos = pre.reached_eos

\* The swallowed attempt had consumed a symbol before it failed.
C12_Witness ==
    /\ Returned("ZeroOrOne")
    /\ Len(call.cb) = 2
    /\ callback(pre, call.cb).kind = "Err"
    /\ callback(pre, call.cb).p # pre
    /\ pre.matched # <<>>
    /\ pipeline = pre

\* The callback cb succeeds exactly k times in a row from p: k applications
\* succeed and one more fails.
GreedyRun(p, cb, k) ==
    /\ Times(p, cb, k).kind = "Ok"
    /\ Times(p, cb, k + 1).kind = "Err"

\* C13: when with_quantifier(AtLeast(n), cb) returns, the callback was applied
\* for as long as it succeeded, k times say; with k >= n the result is Ok with
\* the state after these k applications (more than n are accepted), with
\* k < n it is the error of the failed application.
C13_AtLeast ==
    Returned("AtLeast") =>
        \E k \in 0..MaxPass :
            /\ GreedyRun(pre, call.cb, k)
            /\ count = k
            /\ IF k >= call.n
               THEN res.kind = "Ok" /\ pipeline = Times(pre, call.cb, k).p
               ELSE /\ res.kind = "Err"
                    /\ res.err = Times(pre, call.cb, k + 1).err

\* AtLeast(1) was given a callback that succeeds twice and returned Ok, both
\* repetitions consumed, with input left over.
C13_Witness ==
    /\ Returned("AtLeast")
    /\ call.n = 1
    /\ call.cb = <<Step("match_symbol", <<"a">>)>>
    /\ res.kind = "Ok"
    /\ Len(pipeline.matched) = Len(pre.matched) + 2
    /\ pipeline.unmatched # <<>>

\* C14: the loop of AtLeast (and of ZeroOrMore, which runs it) stops once the
\* stream is exhausted: a pass made on an exhausted pipeline is the last one.
C14_LoopStops ==
    [][(pc = "AtLeast" /\ pipeline.reached_eos) => pc' = "idle"]_vars

\* C17: with_quantifier(ZeroOrMore, cb) never returns an error; it returns the
\* state after the longest run of successful applications, as AtLeast(0) does,
\* and the receiver's state when the callback fails at the current position.
C17_ZeroOrMore ==
    Returned("ZeroOrMore") =>
        /\ res.kind = "Ok"
        /\ \E k \in 0..MaxPass :
              /\ GreedyRun(pre, call.cb, k)
              /\ pipeline = Times(pre, call.cb, k).p
        /\ (callback(pre, call.cb).kind = "Err" => pipeline = pre)

\* ZeroOrMore returned after a callback that failed at the current position,
\* having consumed part of its pattern, on a pipeline that had matched before.
C17_Witness ==
    /\ Returned("ZeroOrMore")
    /\ res.kind = "Ok"
    /\ call.cb = <<Step("match_symbol", <<"a">>), Step("match_symbol", <<"b">>)>>
    /\ pre.matched # <<>>
    /\ pre.unmatched # <<>>
    /\ Head(pre.unmatched) = "a"
    /\ callback(pre, call.cb).kind = "Err"
    /\ pipeline = pre

\* C15: AtMost(n) makes a pass only with fewer than n successes behind it (no
\* (n+1)-th attempt); a successful outcome comes after k successes with
\* 1 <= k <= n and is the state after them; when the callback would succeed
\* more than n times in a row the outcome is the state after exactly n
\* applications, the rest of unmatched untouched.
C15_AtMost ==
    /\ pc = "AtMost" => count < call.n
    /\ Returned("AtMost") /\ res.kind = "Ok" =>
          /\ 1 <= count /\ count <= call.n
          /\ Times(pre, call.cb, count).kind = "Ok"
          /\ pipeline = Times(pre, call.cb, count).p
    /\ Returned("AtMost") /\ Times(pre, call.cb, call.n + 1).kind = "Ok" =>
          /\ res.kind = "Ok"
          /\ count = call.n
          /\ pipeline = Times(pre, call.cb, call.n).p

\* AtMost(2) of match_symbol('a') returned on three a's: two are matched, the
\* third is left.
C15_Witness ==
    /\ Returned("AtMost")
    /\ call.n = 2
    /\ call.cb = <<Step("match_symbol", <<"a">>)>>
    /\ pre.unmatched = <<"a", "a", "a">>
    /\ res.kind = "Ok"
    /\ pipeline.matched = <<"a", "a">>
    /\ pipeline.unmatched = <<"a">>

\* C16: when AtMost(n) returns, a callback that failed on its first
\* application gives that application's error; a callback that failed after
\* k successes, 1 <= k < n, gives Ok with the state after the k-th success.
C16_AtMostFailure ==
    Returned("AtMost") =>
        /\ callback(pre, call.cb).kind = "Err" =>
              /\ res.kind = "Err"
              /\ res.err = callback(pre, call.cb).err
              /\ count = 0
        /\ \A k \in 1..(call.n - 1) :
              GreedyRun(pre, call.cb, k) =>
                  /\ res.kind = "Ok"
                  /\ count = k
                  /\ pipeline = Times(pre, call.cb, k).p

\* AtMost(3) returned Ok after one success and a failure of a callback that
\* consumes before it fails.
C16_Witness ==
    /\ Returned("AtMost")
    /\ call.n = 3
    /\ call.cb = <<Step("match_symbol", <<"a">>), Step("match_symbol", <<"b">>)>>
    /\ pre.unmatched = <<"a", "b", "a">>
    /\ GreedyRun(pre, call.cb, 1)
    /\ res.kind = "Ok"
    /\ pipeline.unmatched = <<"a">>

\* C18: in every reachable state the cursor is the sentinel -1 exactly when
\* reached_eos is true, and otherwise it is the number of symbols taken off
\* the stream so far (matched or skipped), which is not negative.
C18_Cursor ==
    /\ cursor = -1 <=> pipeline.reached_eos
    /\ ~pipeline.reached_eos =>
          /\ cursor >= 0
          /\ cursor = Len(pipeline.matched) + skipped
          /\ cursor = Len(input) - Len(pipeline.unmatched)

\* Two successful match_symbol calls on a longer input: the cursor is 2.
C18_Witness ==
    /\ Returned("match_symbol")
    /\ res.kind = "Ok"
    /\ Len(input) > 2
    /\ Len(pipeline.matched) = 2
    /\ skipped = 0
    /\ ~pipeline.reached_eos
    /\ cursor = 2

IsPrefix(s, t) == Len(s) <= Len(t) /\ SubSeq(t, 1, Len(s)) = s

IsSuffix(s, t) == Len(s) <= Len(t) /\ SubSeq(t, Len(t) - Len(s) + 1, Len(t)) = s

\* C19: during and after every operation, primitive or quantifier, the
\* matched sequence the operation was called with is a prefix of the current
\* matched sequence and the current unmatched sequence is a suffix of the one
\* it was called with.
C19_Monotonic ==
    /\ IsPrefix(pre.matched, pipeline.matched)
    /\ IsSuffix(pipeline.unmatched, pre.unmatched)

\* A quantifier returned on a pipeline that had matched before, having
\* matched more and left input over.
C19_Witness ==
    /\ Returned("AtMost")
    /\ res.kind = "Ok"
    /\ pre.matched # <<>>
    /\ Len(pipeline.matched) > Len(pre.matched)
    /\ pipeline.unmatched # <<>>

\* C20: the String that StringDigester::digest makes of a pipeline's matched
\* run, fed to a fresh pipeline that is consumed to the end, gives a matched
\* sequence equal to that run.
C20_RoundTrip ==
    pc = "refed" /\ pipeline.reached_eos => pipeline.matched = pre.matched

\* The round trip was made for a matched run of several chars, one of them
\* encoded on three bytes, taken from an input with a skipped char and with
\* chars left unmatched.
C20_Witness ==
    /\ pc = "refed"
    /\ pipeline.reached_eos
    /\ Len(pre.matched) = 2
    /\ 8364 \in Range(pre.matched)
    /\ Len(digested) > Len(pre.matched)
    /\ pre.unmatched # <<>>
    /\ pipeline.matched = pre.matched

\* The attempt of cb made from the snapshot s fails after its earlier steps
\* consumed symbols.
FailsAfterConsuming(s, cb) ==
    /\ callback(s, cb).kind = "Err"
    /\ Len(callback(s, cb).p.unmatched) < Len(s.unmatched)

\* The number of attempts the quantifier op(n) makes at most.
Attempts(op, n) ==
    CASE op = "ZeroOrOne" -> 1
      [] op = "AtMost"    -> n
      [] OTHER            -> MaxPass + 1

\* C21: when ZeroOrOne, AtLeast, AtMost or ZeroOrMore returns a state and its
\* last attempt failed after consuming symbols, the state returned is the
\* snapshot taken before that attempt: the state after the k successful
\* attempts, the input state when k = 0. Nothing the failed attempt consumed
\* is in matched or gone from unmatched.
C21_NoTrace ==
    /\ pc = "idle"
    /\ call.op \in {"ZeroOrOne", "AtLeast", "AtMost", "ZeroOrMore"}
    /\ res.kind = "Ok"
    => \A k \in 0..(Attempts(call.op, call.n) - 1) :
          /\ GreedyRun(pre, call.cb, k)
          /\ FailsAfterConsuming(Times(pre, call.cb, k).p, call.cb)
          => /\ pipeline = Times(pre, call.cb, k).p
             /\ pipeline.matched \o pipeline.unmatched
                   = pre.matched \o pre.unmatched

\* AtLeast(1) of "a then b" returned on a, b, a: one attempt succeeded, the
\* next consumed the last a and failed; that a is still unmatched.
C21_Witness ==
    /\ Returned("AtLeast")
    /\ call.n = 1
    /\ call.cb = <<Step("match_symbol", <<"a">>), Step("match_symbol", <<"b">>)>>
    /\ pre.unmatched = <<"a", "b", "a">>
    /\ FailsAfterConsuming(Times(pre, call.cb, 1).p, call.cb)
    /\ res.kind = "Ok"
    /\ pipeline.unmatched = <<"a">>

\* C22: consume never fails. On an exhausted pipeline it returns the state
\* unchanged, and so does a further consume; otherwise it moves the head of
\* unmatched, one symbol, to the tail of matched and sets reached_eos to
\* whether unmatched is now empty.
C22_Consume ==
    Returned("consume") =>
        /\ res.kind = "Ok"
        /\ IF pre.reached_eos
           THEN pipeline = pre /\ consume(pipeline) = pipeline
           ELSE /\ pipeline.matched = Append(pre.matched, Head(pre.unmatched))
                /\ pipeline.unmatched = Tail(pre.unmatched)
                /\ pipeline.reached_eos = (Len(pre.unmatched) = 1)

\* consume took the last symbol of a pipeline that had matched before, and
\* the pipeline is now exhausted.
C22_Witness ==
    /\ Returned("consume")
    /\ pre.matched # <<>>
    /\ ~pre.reached_eos
    /\ pipeline.reached_eos
    /\ Len(pipeline.matched) = Len(pre.matched) + 1

\* C23: skip on a pipeline that is not exhausted removes the head of
\* unmatched, one symbol, and leaves matched as it was; on an exhausted
\* pipeline it returns the state unchanged; reached_eos is whether unmatched
\* is empty afterwards.
C23_Skip ==
    Returned("skip") =>
        /\ res.kind = "Ok"
        /\ pipeline.matched = pre.matched
        /\ IF pre.reached_eos
           THEN pipeline = pre
           ELSE /\ pipeline.unmatched = Tail(pre.unmatched)
                /\ pipeline.reached_eos = (Len(pre.unmatched) = 1)

\* skip dropped a symbol between matched symbols and further input, as the
\* 'a' of "Fax" in the test should_skip.
C23_Witness ==
    /\ Returned("skip")
    /\ pre.matched # <<>>
    /\ Len(pre.unmatched) = 2
    /\ pipeline.matched = pre.matched
    /\ Len(pipeline.unmatched) = 1
    /\ ~pipeline.reached_eos

\* The positions of u whose symbol is one of the symbols accepted.
Accepted(u, accepted_symbols) ==
    {i \in 1..Len(u) : u[i] \in Range(accepted_symbols)}

\* C24, at return: match_until_group(group) returns success; everything up to
\* and including the first symbol of the pre-call unmatched that the group
\* accepts has been consumed, the whole remainder if the group accepts none;
\* an exhausted pipeline is returned unchanged.
C24_Returned ==
    Returned("match_until_group") =>
        LET u == pre.unmatched
            A == Accepted(u, call.arg)
            k == IF A = {} THEN Len(u) ELSE Least(A)
        IN  /\ res.kind = "Ok"
            /\ pipeline.matched = pre.matched \o SubSeq(u, 1, k)
            /\ pipeline.unmatched = SubSeq(u, k + 1, Len(u))
            /\ pipeline.reached_eos = (k = Len(u))
            /\ pre.reached_eos => pipeline = pre

\* C24: match_until_group(group) never fails and always returns, with the
\* state C24_Returned describes.
C24_MatchUntilGroup ==
    /\ []C24_Returned
    /\ (pc = "match_until_group") ~> (pc = "idle")

\* match_until_group of the group "b" returned on a, b, a: a and the
\* delimiting b are matched, the last a is left.
C24_Witness ==
    /\ Returned("match_until_group")
    /\ call.arg = <<"b">>
    /\ pre.unmatched = <<"a", "b", "a">>
    /\ res.kind = "Ok"
    /\ pipeline.matched = pre.matched \o <<"a", "b">>
    /\ pipeline.unmatched = <<"a">>

====
